---- MODULE Spec2Model ----
(***************************************************************************)
(* A model of the MassNet wallet persistence layer:                        *)
(*   - masswallet/db: BytesPrefix, the View/Update transaction helpers and *)
(*     the DB driver registry;                                             *)
(*   - storage: BytesPrefix and the Storage driver registry;               *)
(*   - masswallet/keystore: the keystore codec over one db.Bucket.         *)
(* The storage engines behind db.DB / db.Bucket are not part of these      *)
(* sources; they are modelled from the documented contract of the          *)
(* interfaces (a bucket is an ordered map from byte strings to byte        *)
(* strings, a write transaction works on a private copy until Commit).     *)
(***************************************************************************)
EXTENDS Integers, Sequences, FiniteSets, TLC

VARIABLES
    store,      \* db: the committed contents of the database
    tx,         \* db: the transaction of the helper call in progress
    call,       \* db: the View/Update call in progress or last finished
    prev,       \* db: the call that finished before `call` started
    prefix,     \* BytesPrefix: the argument
    key,        \* BytesPrefix: a key compared against the range
    range,      \* BytesPrefix: result of db.BytesPrefix
    srange,     \* BytesPrefix: result of storage.BytesPrefix
    drivers,    \* db: var drivers []DBDriver
    sdrivers,   \* storage: var drivers []StorageDriver
    regres,     \* registry: outcome of the last Create*/Open* call
    bucket,     \* keystore: contents of the db.Bucket the codec works on
    res,        \* keystore: outcome of the last codec call
    hist,       \* keystore: what the calls so far have written
    files,      \* storage: the ".ver" file of each storage root
    verres,     \* storage: outcome of the last CheckVersion call
    stamped     \* storage: the type of the last successful stamping

txVars == <<store, tx, call, prev>>
prefixVars == <<prefix, key, range, srange>>
regVars == <<drivers, sdrivers, regres>>
ksVars == <<bucket, res, hist>>
verVars == <<files, verres, stamped>>
vars == <<store, tx, call, prev, prefix, key, range, srange,
          drivers, sdrivers, regres, bucket, res, hist,
          files, verres, stamped>>

\* Go's nil (error, slice or pointer).
Nil == "nil"

(***************************************************************************)
(* db.DB, db.DBTransaction, db.ReadTransaction                             *)
(***************************************************************************)

\* Bounds of the transaction model.
MaxPuts == 2

TxKeys == {"k1", "k2"}
TxVals == {"v1", "v2"}
Absent == "absent"
Stores == [TxKeys -> TxVals \cup {Absent}]
EmptyStore == [k \in TxKeys |-> Absent]

\* Errors a transaction body may return, and errors of the engine.
FnErrors == {"ErrFnA", "ErrFnB"}
ErrBegin == "ErrBeginFailed"
ErrCommit == "ErrCommitFailed"
ErrRelease == "ErrReleaseFailed"
ErrInvalidArgument == "ErrInvalidArgument"

NoTx == [state |-> "none", kind |-> "none", work |-> EmptyStore,
         commits |-> 0, rollbacks |-> 0]

\* DB.BeginTx: a write transaction working on a private copy of the
\* committed contents; the engine may refuse to begin.
BeginTx(s, ok) ==
    IF ok
    THEN [tx |-> [state |-> "open", kind |-> "write", work |-> s,
                  commits |-> 0, rollbacks |-> 0], err |-> Nil]
    ELSE [tx |-> NoTx, err |-> ErrBegin]

\* DB.BeginReadTx: a read transaction holding a snapshot.
BeginReadTx(s, ok) ==
    IF ok
    THEN [tx |-> [state |-> "open", kind |-> "read", work |-> s,
                  commits |-> 0, rollbacks |-> 0], err |-> Nil]
    ELSE [tx |-> NoTx, err |-> ErrBegin]

\* Bucket.Put inside a write transaction: buffered in the private copy.
TxPut(t, k, v) == [t EXCEPT !.work = [@ EXCEPT ![k] = v]]

\* DBTransaction.Commit: terminates the transaction; all of its writes
\* become the committed contents, or (on failure) none of them.
TxCommit(t, s, ok) ==
    IF t.state # "open"
    THEN [tx |-> [t EXCEPT !.commits = @ + 1], store |-> s,
          err |-> ErrInvalidArgument]
    ELSE IF ok
    THEN [tx |-> [t EXCEPT !.state = "committed", !.commits = @ + 1],
          store |-> t.work, err |-> Nil]
    ELSE [tx |-> [t EXCEPT !.state = "failed", !.commits = @ + 1],
          store |-> s, err |-> ErrCommit]

\* Transaction.Rollback: terminates the transaction and discards its
\* writes; rerr is the error the engine reports for the release.
TxRollback(t, rerr) ==
    IF t.state # "open"
    THEN [tx |-> [t EXCEPT !.rollbacks = @ + 1], err |-> ErrInvalidArgument]
    ELSE [tx |-> [t EXCEPT !.state = "rolledback", !.rollbacks = @ + 1],
          err |-> rerr]

IdleCall == [op |-> "none", pc |-> "idle", begun |-> FALSE, nputs |-> 0,
             fncalls |-> 0, fnret |-> Nil, ret |-> Nil, log |-> <<>>,
             base |-> EmptyStore,
             observed |-> [set |-> FALSE, val |-> EmptyStore]]

NewCall(op, s) == [IdleCall EXCEPT !.op = op, !.base = s]

CallIdle == call.pc \in {"idle", "done"}

\* Update, lines 123-126: begin the write transaction, return the begin
\* error without invoking f.
UpdateBegin(ok) ==
    LET r == BeginTx(store, ok)
        c == [NewCall("Update", store) EXCEPT !.log = <<"BeginTx">>]
    IN  IF r.err # Nil
        THEN [tx |-> r.tx, call |-> [c EXCEPT !.pc = "done", !.ret = r.err]]
        ELSE [tx |-> r.tx,
              call |-> [c EXCEPT !.pc = "fn", !.begun = TRUE,
                                 !.fncalls = 1, !.log = Append(@, "fn")]]

\* A mutant of UpdateFinish: a failed body is committed, not rolled back.
UpdateFinishCommitOnError(e, commitOk, rerr) ==
    LET r == TxCommit(tx, store, commitOk)
    IN  [tx |-> r.tx, store |-> r.store,
         call |-> [call EXCEPT !.pc = "done", !.fnret = e,
                               !.ret = IF e # Nil THEN e ELSE r.err,
                               !.log = Append(@, "Commit")]]

\* A mutant of UpdateFinish: Commit's error is dropped.
UpdateFinishDropCommitErr(e, commitOk, rerr) ==
    IF e # Nil
    THEN LET r == TxRollback(tx, rerr)
         IN  [tx |-> r.tx, store |-> store,
              call |-> [call EXCEPT !.pc = "done", !.fnret = e, !.ret = e,
                                    !.log = Append(@, "Rollback")]]
    ELSE LET r == TxCommit(tx, store, commitOk)
         IN  [tx |-> r.tx, store |-> r.store,
              call |-> [call EXCEPT !.pc = "done", !.fnret = e, !.ret = Nil,
                                    !.log = Append(@, "Commit")]]

\* Update, lines 127-132, once f has returned e: roll back and return e,
\* or commit and return Commit's error.
UpdateFinish(e, commitOk, rerr) ==
    IF e # Nil
    THEN LET r == TxRollback(tx, rerr)
         IN  [tx |-> r.tx, store |-> store,
              call |-> [call EXCEPT !.pc = "done", !.fnret = e, !.ret = e,
                                    !.log = Append(@, "Rollback")]]
    ELSE LET r == TxCommit(tx, store, commitOk)
         IN  [tx |-> r.tx, store |-> r.store,
              call |-> [call EXCEPT !.pc = "done", !.fnret = e,
                                    !.ret = r.err,
                                    !.log = Append(@, "Commit")]]

\* View, lines 113-117: begin the read transaction, return the begin error
\* without invoking f; otherwise the release is deferred and f is invoked.
ViewBegin(ok) ==
    LET r == BeginReadTx(store, ok)
        c == [NewCall("View", store) EXCEPT !.log = <<"BeginReadTx">>]
    IN  IF r.err # Nil
        THEN [tx |-> r.tx, call |-> [c EXCEPT !.pc = "done", !.ret = r.err]]
        ELSE [tx |-> r.tx,
              call |-> [c EXCEPT !.pc = "fn", !.begun = TRUE,
                                 !.fncalls = 1, !.log = Append(@, "fn")]]

\* A mutant of ViewFinish: the release is skipped when the body failed.
ViewFinishLeakOnError(e, rerr) ==
    IF e # Nil
    THEN [tx |-> tx,
          call |-> [call EXCEPT !.pc = "done", !.fnret = e, !.ret = e]]
    ELSE LET r == TxRollback(tx, rerr)
         IN  [tx |-> r.tx,
              call |-> [call EXCEPT !.pc = "done", !.fnret = e, !.ret = e,
                                    !.log = Append(@, "Rollback")]]

\* View, lines 117-118, once f has returned e: the deferred Rollback runs,
\* its error is dropped, and e is returned.
ViewFinish(e, rerr) ==
    LET r == TxRollback(tx, rerr)
    IN  [tx |-> r.tx,
         call |-> [call EXCEPT !.pc = "done", !.fnret = e, !.ret = e,
                               !.log = Append(@, "Rollback")]]

InitTx ==
    /\ store = EmptyStore
    /\ tx = NoTx
    /\ call = IdleCall
    /\ prev = IdleCall

\* A caller invokes Update(db, f).
CallUpdate ==
    /\ CallIdle
    /\ \E ok \in BOOLEAN :
         LET u == UpdateBegin(ok)
         IN  /\ tx' = u.tx
             /\ call' = u.call
    /\ prev' = call
    /\ UNCHANGED <<store, prefixVars, regVars, ksVars, verVars>>

\* The body of an Update writes to a bucket of its transaction.
BodyPut ==
    /\ call.op = "Update" /\ call.pc = "fn"
    /\ call.nputs < MaxPuts
    /\ \E k \in TxKeys, v \in TxVals :
         tx' = TxPut(tx, k, v)
    /\ call' = [call EXCEPT !.nputs = @ + 1]
    /\ UNCHANGED <<store, prev, prefixVars, regVars, ksVars, verVars>>

\* The body of an Update returns, and Update runs to its end.
UpdateReturn ==
    /\ call.op = "Update" /\ call.pc = "fn"
    /\ \E e \in FnErrors \cup {Nil}, commitOk \in BOOLEAN,
          rerr \in {Nil, ErrRelease} :
         LET u == UpdateFinish(e, commitOk, rerr)
         IN  /\ tx' = u.tx
             /\ store' = u.store
             /\ call' = u.call
    /\ UNCHANGED <<prev, prefixVars, regVars, ksVars, verVars>>

\* A caller invokes View(db, f).
CallView ==
    /\ CallIdle
    /\ \E ok \in BOOLEAN :
         LET u == ViewBegin(ok)
         IN  /\ tx' = u.tx
             /\ call' = u.call
    /\ prev' = call
    /\ UNCHANGED <<store, prefixVars, regVars, ksVars, verVars>>

\* The body of a View reads the buckets of its transaction.
BodyRead ==
    /\ call.op = "View" /\ call.pc = "fn"
    /\ ~call.observed.set
    /\ call' = [call EXCEPT !.observed = [set |-> TRUE, val |-> tx.work]]
    /\ UNCHANGED <<store, tx, prev, prefixVars, regVars, ksVars, verVars>>

\* The body of a View returns, and View runs to its end.
ViewReturn ==
    /\ call.op = "View" /\ call.pc = "fn"
    /\ \E e \in FnErrors \cup {Nil}, rerr \in {Nil, ErrRelease} :
         LET u == ViewFinish(e, rerr)
         IN  /\ tx' = u.tx
             /\ call' = u.call
    /\ UNCHANGED <<store, prev, prefixVars, regVars, ksVars, verVars>>

NextTx ==
    \/ CallUpdate
    \/ BodyPut
    \/ UpdateReturn
    \/ CallView
    \/ BodyRead
    \/ ViewReturn

(***************************************************************************)
(* BytesPrefix (masswallet/db and storage)                                 *)
(***************************************************************************)

\* Bounds of the prefix model: lengths of the prefix and of the key.
MaxPrefixLen == 2
MaxKeyLen == 3

\* The byte values used: both ends of the byte range and their neighbours.
Bytes == {0, 1, 254, 255}

RECURSIVE ByteStrings(_)
ByteStrings(n) ==
    IF n = 0 THEN {<<>>}
    ELSE LET shorter == ByteStrings(n - 1)
         IN  shorter \cup {Append(s, c) : s \in {t \in shorter : Len(t) = n - 1},
                                          c \in Bytes}

\* A Go byte slice that may be nil.
NilSlice == [nil |-> TRUE, b |-> <<>>]
Slice(s) == [nil |-> FALSE, b |-> s]

\* The loop of BytesPrefix, from index i (1-based) downwards: the first
\* byte below 0xff found is incremented and the prefix is cut after it.
RECURSIVE PrefixLimit(_, _)
PrefixLimit(p, i) ==
    IF i < 1 THEN NilSlice
    ELSE IF p[i] < 255
    THEN Slice([j \in 1..i |-> IF j = i THEN p[i] + 1 ELSE p[j]])
    ELSE PrefixLimit(p, i - 1)

\* A mutant of BytesPrefix: the prefix is not cut after the incremented byte.
BytesPrefixNoCut(p) ==
    LET l == PrefixLimit(p, Len(p))
    IN  [Start |-> p,
         Limit |-> IF l.nil THEN l
                   ELSE Slice(l.b \o SubSeq(p, Len(l.b) + 1, Len(p)))]

\* db.BytesPrefix
BytesPrefix(p) == [Start |-> p, Limit |-> PrefixLimit(p, Len(p))]

\* storage.BytesPrefix
StorageBytesPrefix(p) == [Start |-> p, Limit |-> PrefixLimit(p, Len(p))]

NoRange == [Start |-> <<>>, Limit |-> NilSlice, set |-> FALSE]
SetRange(r) == [Start |-> r.Start, Limit |-> r.Limit, set |-> TRUE]

\* bytes.Compare(a, b) < 0: the bytewise order of keys.
RECURSIVE BytesLess(_, _)
BytesLess(a, b) ==
    IF Len(b) = 0 THEN FALSE
    ELSE IF Len(a) = 0 THEN TRUE
    ELSE IF a[1] # b[1] THEN a[1] < b[1]
    ELSE BytesLess(Tail(a), Tail(b))

BytesLeq(a, b) == a = b \/ BytesLess(a, b)

\* bytes.HasPrefix(k, p)
HasPrefix(k, p) == Len(k) >= Len(p) /\ SubSeq(k, 1, Len(p)) = p

\* Whether key k lies in the half-open range r.
InRange(r, k) ==
    /\ BytesLeq(r.Start, k)
    /\ (r.Limit.nil \/ BytesLess(k, r.Limit.b))

InitPrefix ==
    /\ prefix \in ByteStrings(MaxPrefixLen)
    /\ key \in ByteStrings(MaxKeyLen)
    /\ range = NoRange
    /\ srange = NoRange

\* A caller invokes db.BytesPrefix(prefix).
CallBytesPrefix ==
    /\ ~range.set
    /\ range' = SetRange(BytesPrefix(prefix))
    /\ UNCHANGED <<prefix, key, srange, txVars, regVars, ksVars, verVars>>

\* A caller invokes storage.BytesPrefix(prefix).
CallStorageBytesPrefix ==
    /\ ~srange.set
    /\ srange' = SetRange(StorageBytesPrefix(prefix))
    /\ UNCHANGED <<prefix, key, range, txVars, regVars, ksVars, verVars>>

NextPrefix ==
    \/ CallBytesPrefix
    \/ CallStorageBytesPrefix

(***************************************************************************)
(* The driver registries (masswallet/db and storage)                       *)
(***************************************************************************)

DbTypes == {"leveldb", "memdb"}
\* A driver is identified by its constructors.
Ctors == {"c1", "c2"}
Driver == [Type : DbTypes, ctor : Ctors]

ErrDbUnknownType == "ErrDbUnknownType"
ErrCtor == "ErrCtorFailed"

\* What a driver's constructor may return: a handle or nil, an error or nil.
CtorResults == [h : {Nil, "handle"}, err : {Nil, ErrCtor}]

\* The handle a constructor hands out.
HandleOf(ctor, r) == IF r.h = Nil THEN Nil ELSE ctor

\* `for _, driver := range drivers { if driver.Type == t { ... } }`: the
\* index of the first driver of type t at or after i, 0 when there is none.
RECURSIVE FindDriver(_, _, _)
FindDriver(ds, t, i) ==
    IF i > Len(ds) THEN 0
    ELSE IF ds[i].Type = t THEN i
    ELSE FindDriver(ds, t, i + 1)

\* A mutant of RegisterDriver: a duplicate type replaces the entry.
RegisterDriverReplace(ds, ins) ==
    LET i == FindDriver(ds, ins.Type, 1)
    IN  IF i # 0 THEN [ds EXCEPT ![i] = ins] ELSE Append(ds, ins)

\* RegisterDriver (both registries): append unless the type is present.
RegisterDriver(ds, ins) ==
    IF FindDriver(ds, ins.Type, 1) # 0 THEN ds ELSE Append(ds, ins)

\* The outcome of a lookup: which constructor of which driver was invoked
\* (none: Nil), what it returned, and what the lookup returned; `first` is
\* the first driver of the type ever passed to RegisterDriver before the
\* lookup (none: Nil).
NoRegRes == [fn |-> "none", type |-> Nil, invoked |-> Nil, field |-> Nil,
             ctorh |-> Nil, ctorerr |-> Nil, h |-> Nil, err |-> Nil,
             first |-> Nil]

Unknown(fn, t) == [NoRegRes EXCEPT !.fn = fn, !.type = t,
                                   !.err = ErrDbUnknownType]

\* db.CreateDB: driver.CreateDB(args...) of the first driver of the type.
CreateDB(ds, t, r) ==
    LET i == FindDriver(ds, t, 1)
    IN  IF i # 0
        THEN [fn |-> "CreateDB", type |-> t, invoked |-> ds[i].ctor,
              field |-> "CreateDB",
              ctorh |-> HandleOf(ds[i].ctor, r), ctorerr |-> r.err,
              h |-> HandleOf(ds[i].ctor, r), err |-> r.err,
              first |-> Nil]
        ELSE Unknown("CreateDB", t)

\* db.OpenDB: driver.OpenDB(args...) of the first driver of the type.
OpenDB(ds, t, r) ==
    LET i == FindDriver(ds, t, 1)
    IN  IF i # 0
        THEN [fn |-> "OpenDB", type |-> t, invoked |-> ds[i].ctor,
              field |-> "OpenDB",
              ctorh |-> HandleOf(ds[i].ctor, r), ctorerr |-> r.err,
              h |-> HandleOf(ds[i].ctor, r), err |-> r.err,
              first |-> Nil]
        ELSE Unknown("OpenDB", t)

\* storage.CreateStorage: drv.CreateStorage(dbpath, args...) of the first
\* driver of the type; a constructor error is returned with a nil Storage.
CreateStorage(ds, t, r) ==
    LET i == FindDriver(ds, t, 1)
    IN  IF i # 0
        THEN [fn |-> "CreateStorage", type |-> t, invoked |-> ds[i].ctor,
              field |-> "CreateStorage",
              ctorh |-> HandleOf(ds[i].ctor, r), ctorerr |-> r.err,
              h |-> IF r.err # Nil THEN Nil ELSE HandleOf(ds[i].ctor, r),
              err |-> r.err, first |-> Nil]
        ELSE Unknown("CreateStorage", t)

\* storage.OpenStorage: drv.OpenStorage(dbpath, args...) of the first
\* driver of the type.
OpenStorage(ds, t, r) ==
    LET i == FindDriver(ds, t, 1)
    IN  IF i # 0
        THEN [fn |-> "OpenStorage", type |-> t, invoked |-> ds[i].ctor,
              field |-> "OpenStorage",
              ctorh |-> HandleOf(ds[i].ctor, r), ctorerr |-> r.err,
              h |-> HandleOf(ds[i].ctor, r), err |-> r.err,
              first |-> Nil]
        ELSE Unknown("OpenStorage", t)

InitReg ==
    /\ drivers = [list |-> <<>>, first |-> [t \in DbTypes |-> Nil]]
    /\ sdrivers = [list |-> <<>>, first |-> [t \in DbTypes |-> Nil]]
    /\ regres = NoRegRes

\* The registry after RegisterDriver(ins); `first` remembers, per type, the
\* first driver ever passed to RegisterDriver.
Registered(reg, ins) ==
    [list |-> RegisterDriver(reg.list, ins),
     first |-> IF reg.first[ins.Type] = Nil
               THEN [reg.first EXCEPT ![ins.Type] = ins.ctor]
               ELSE reg.first]

\* db.RegisterDriver(ins)
DBRegisterDriver ==
    /\ \E ins \in Driver : drivers' = Registered(drivers, ins)
    /\ UNCHANGED <<sdrivers, regres, txVars, prefixVars, ksVars, verVars>>

\* storage.RegisterDriver(instance)
StorageRegisterDriver ==
    /\ \E ins \in Driver : sdrivers' = Registered(sdrivers, ins)
    /\ UNCHANGED <<drivers, regres, txVars, prefixVars, ksVars, verVars>>

\* db.CreateDB(dbtype, args...)
CallCreateDB ==
    /\ \E t \in DbTypes, r \in CtorResults :
         regres' = [CreateDB(drivers.list, t, r) EXCEPT !.first = drivers.first[t]]
    /\ UNCHANGED <<drivers, sdrivers, txVars, prefixVars, ksVars, verVars>>

\* db.OpenDB(dbtype, args...)
CallOpenDB ==
    /\ \E t \in DbTypes, r \in CtorResults :
         regres' = [OpenDB(drivers.list, t, r) EXCEPT !.first = drivers.first[t]]
    /\ UNCHANGED <<drivers, sdrivers, txVars, prefixVars, ksVars, verVars>>

\* storage.CreateStorage(dbtype, dbpath, args...)
CallCreateStorage ==
    /\ \E t \in DbTypes, r \in CtorResults :
         regres' = [CreateStorage(sdrivers.list, t, r) EXCEPT !.first = sdrivers.first[t]]
    /\ UNCHANGED <<drivers, sdrivers, txVars, prefixVars, ksVars, verVars>>

\* storage.OpenStorage(dbtype, dbpath, args...)
CallOpenStorage ==
    /\ \E t \in DbTypes, r \in CtorResults :
         regres' = [OpenStorage(sdrivers.list, t, r) EXCEPT !.first = sdrivers.first[t]]
    /\ UNCHANGED <<drivers, sdrivers, txVars, prefixVars, ksVars, verVars>>

NextReg ==
    \/ DBRegisterDriver
    \/ StorageRegisterDriver
    \/ CallCreateDB
    \/ CallOpenDB
    \/ CallCreateStorage
    \/ CallOpenStorage

(***************************************************************************)
(* db.Bucket, as the keystore codec uses it                                *)
(***************************************************************************)

ErrIO == "ErrBucketIO"

\* A bucket: its key/value pairs (byte strings), and the keys on which the
\* engine fails a Get or a Put.
EmptyBucket == [data |-> <<>>, getErr |-> {}, putErr |-> {}]

HasKey(b, k) == k \in DOMAIN b.data

\* Bucket.Get: nil if not found.
Get(b, k) ==
    IF k \in b.getErr THEN [val |-> NilSlice, err |-> ErrIO]
    ELSE IF HasKey(b, k) THEN [val |-> Slice(b.data[k]), err |-> Nil]
    ELSE [val |-> NilSlice, err |-> Nil]

\* Bucket.Put
Put(b, k, v) ==
    IF k \in b.putErr THEN [b |-> b, err |-> ErrIO]
    ELSE [b |-> [b EXCEPT !.data = [x \in DOMAIN b.data \cup {k} |->
                                       IF x = k THEN v ELSE b.data[x]]],
          err |-> Nil]

\* The smallest key of a non-empty set of keys, in bytewise order.
MinKey(ks) == CHOOSE k \in ks : \A o \in ks : BytesLeq(k, o)

RECURSIVE SortedEntries(_, _)
SortedEntries(b, ks) ==
    IF ks = {} THEN <<>>
    ELSE LET k == MinKey(ks)
         IN  <<[Key |-> k, Value |-> b.data[k]]>>
               \o SortedEntries(b, ks \ {k})

\* Bucket.GetByPrefix: the entries whose key starts with p, in key order.
GetByPrefix(b, p) ==
    SortedEntries(b, {k \in DOMAIN b.data : HasPrefix(k, p)})

(***************************************************************************)
(* masswallet/keystore: the codec                                          *)
(***************************************************************************)

\* The fixed key names, as ASCII bytes.
keystoreVersionName == <<107, 118, 101, 114>>    \* "kver"
masterPrivKeyName == <<109, 112, 114, 105, 118>>    \* "mpriv"
masterPubKeyName == <<109, 112, 117, 98>>    \* "mpub"
cryptoPrivKeyName == <<99, 112, 114, 105, 118>>    \* "cpriv"
cryptoPubKeyName == <<99, 112, 117, 98>>    \* "cpub"
cryptoEntropyKeyName == <<99, 101, 110, 116>>    \* "cent"
accountUsageName == <<97, 99, 99, 111, 117, 110, 116>>    \* "account"
coinTypeName == <<99, 111, 105, 110, 84, 121, 112, 101>>    \* "coinType"
externalBranchPubKeyName == <<101, 120, 98, 80, 117, 98, 75, 101, 121>>    \* "exbPubKey"
internalBranchPubKeyName == <<105, 110, 98, 80, 117, 98, 75, 101, 121>>    \* "inbPubKey"
externalChildNumName == <<101, 120, 67, 104, 105, 108, 100, 78, 117, 109>>    \* "exChildNum"
internalChildNumName == <<105, 110, 67, 104, 105, 108, 100, 78, 117, 109>>    \* "inChildNum"

\* accountMASS accountType = 0
accountMASS == 0

\* A uint32 is kept as two 16-bit halves.
Half == 256 * 256
U32(hi, lo) == [hi |-> hi, lo |-> lo]

\* uint32(n) of a non-negative int n.
U32FromInt(n) == U32((n \div Half) % Half, n % Half)

\* a + b in uint32 arithmetic (wraps at 2^32).
U32Add(a, b) ==
    LET lo == a.lo + b.lo
    IN  U32((a.hi + b.hi + lo \div Half) % Half, lo % Half)

U32Leq(a, b) == a.hi < b.hi \/ (a.hi = b.hi /\ a.lo <= b.lo)

\* a <= n for a uint32 a and an int n below 2^16.
U32LeqInt(a, n) == a.hi = 0 /\ a.lo <= n

\* int(a), for a uint32 a below 2^16.
U32Int(a) == a.lo

\* uint32ToBytes: 4 bytes, little-endian.
uint32ToBytes(number) ==
    <<number.lo % 256, number.lo \div 256, number.hi % 256,
      number.hi \div 256>>

\* binary.LittleEndian.Uint32 of the first 4 bytes of b.
LittleEndianUint32(b) == U32(b[3] + 256 * b[4], b[1] + 256 * b[2])

\* Whether s[lo:hi] is a valid slice expression for a slice of capacity cap.
SliceOk(lo, hi, cap) == U32Leq(lo, hi) /\ U32LeqInt(hi, cap)

\* s[lo:hi]
SliceOf(s, lo, hi) == SubSeq(s, U32Int(lo) + 1, U32Int(hi))

\* Outcomes of a codec call: a value, an error, or a run-time panic.
Ok(v) == [outcome |-> "ok", err |-> Nil, val |-> v]
Err(e) == [outcome |-> "error", err |-> e, val |-> <<>>]
Panic == [outcome |-> "panic", err |-> Nil, val |-> <<>>]

ErrMalformedRow == "malformed serialized account"
ErrMalformedHD == "malformed serialized bip0044 account"
ErrUnsupportedType == "unsupported account type"
ErrAccountNotFound == "account not found"
ErrStoreUsage == "failed to store account usage"
ErrStoreAccount == "failed to store account"

\* deserializeAccountRow; `slack` is what follows the record in its backing
\* array (a Go slice expression is checked against the capacity).
deserializeAccountRow(serializedAccount, slack) ==
    IF Len(serializedAccount) < 5 THEN Err(ErrMalformedRow)
    ELSE LET backing == serializedAccount \o slack
             rdlen == LittleEndianUint32(SubSeq(serializedAccount, 2, 5))
             lo == U32FromInt(5)
             hi == U32Add(U32FromInt(5), rdlen)
         IN  IF ~SliceOk(lo, hi, Len(backing)) THEN Panic
             ELSE Ok([acctType |-> serializedAccount[1],
                      rawData |-> SliceOf(backing, lo, hi)])

\* serializeAccountRow
serializeAccountRow(row) ==
    <<row.acctType>> \o uint32ToBytes(U32FromInt(Len(row.rawData)))
        \o row.rawData

\* A mutant of deserializeHDAccountKey: the offset is not advanced past the
\* private key's length prefix.
deserializeHDAccountKeyNoAdvance(row) ==
    IF Len(row.rawData) < 8 THEN Err(ErrMalformedHD)
    ELSE LET raw == row.rawData
             pubLen == LittleEndianUint32(SubSeq(raw, 1, 4))
             pubEnd == U32Add(U32FromInt(4), pubLen)
         IN  IF ~SliceOk(U32FromInt(4), pubEnd, Len(raw)) THEN Panic
             ELSE LET offset == pubEnd
                      lenEnd == U32Add(offset, U32FromInt(4))
                  IN  IF ~SliceOk(offset, lenEnd, Len(raw)) THEN Panic
                      ELSE LET privLen == LittleEndianUint32(
                                              SliceOf(raw, offset, lenEnd))
                               privEnd == U32Add(offset, privLen)
                           IN  IF ~SliceOk(offset, privEnd, Len(raw))
                               THEN Panic
                               ELSE Ok([acctType |-> row.acctType,
                                        rawData |-> raw,
                                        pubKeyEncrypted |->
                                            SliceOf(raw, U32FromInt(4), pubEnd),
                                        privKeyEncrypted |->
                                            SliceOf(raw, offset, privEnd)])

\* deserializeHDAccountKey
deserializeHDAccountKey(row) ==
    IF Len(row.rawData) < 8 THEN Err(ErrMalformedHD)
    ELSE LET raw == row.rawData
             pubLen == LittleEndianUint32(SubSeq(raw, 1, 4))
             pubEnd == U32Add(U32FromInt(4), pubLen)
         IN  IF ~SliceOk(U32FromInt(4), pubEnd, Len(raw)) THEN Panic
             ELSE LET offset == pubEnd
                      lenEnd == U32Add(offset, U32FromInt(4))
                  IN  IF ~SliceOk(offset, lenEnd, Len(raw)) THEN Panic
                      ELSE LET privLen == LittleEndianUint32(
                                              SliceOf(raw, offset, lenEnd))
                               privEnd == U32Add(lenEnd, privLen)
                           IN  IF ~SliceOk(lenEnd, privEnd, Len(raw))
                               THEN Panic
                               ELSE Ok([acctType |-> row.acctType,
                                        rawData |-> raw,
                                        pubKeyEncrypted |->
                                            SliceOf(raw, U32FromInt(4), pubEnd),
                                        privKeyEncrypted |->
                                            SliceOf(raw, lenEnd, privEnd)])

\* serializeHDAccountKey
serializeHDAccountKey(encryptedPubKey, encryptedPrivKey) ==
    uint32ToBytes(U32FromInt(Len(encryptedPubKey))) \o encryptedPubKey
        \o uint32ToBytes(U32FromInt(Len(encryptedPrivKey)))
        \o encryptedPrivKey

\* fetchAccountUsage: the error of Get is dropped.
fetchAccountUsage(b) ==
    LET g == Get(b, accountUsageName)
    IN  IF g.val.nil THEN Err("required account usage not stored")
        ELSE IF Len(g.val.b) < 4 THEN Panic
        ELSE Ok(LittleEndianUint32(g.val.b))

\* putAccountUsage
putAccountUsage(b, account) ==
    LET p == Put(b, accountUsageName, uint32ToBytes(account))
    IN  IF p.err # Nil THEN [b |-> p.b, err |-> ErrStoreUsage] ELSE p

\* putAccountRow
putAccountRow(b, accountUsage, accountInfo) ==
    LET p == Put(b, uint32ToBytes(accountUsage),
                 serializeAccountRow(accountInfo))
    IN  IF p.err # Nil THEN [b |-> p.b, err |-> ErrStoreAccount] ELSE p

\* putAccountInfo
putAccountInfo(b, account, encryptedPubKey, encryptedPrivKey) ==
    LET rawData == serializeHDAccountKey(encryptedPubKey, encryptedPrivKey)
        u == putAccountUsage(b, account)
    IN  IF u.err # Nil THEN u
        ELSE putAccountRow(u.b, account,
                           [acctType |-> accountMASS, rawData |-> rawData])

\* fetchAccountInfo: the error of Get is dropped.
fetchAccountInfo(b, account, slack) ==
    LET g == Get(b, uint32ToBytes(account))
    IN  IF g.val.nil THEN Err(ErrAccountNotFound)
        ELSE LET r == deserializeAccountRow(g.val.b, slack)
             IN  IF r.outcome # "ok" THEN r
                 ELSE IF r.val.acctType = accountMASS
                 THEN deserializeHDAccountKey(r.val)
                 ELSE Err(ErrUnsupportedType)

(***************************************************************************)
(* Keystore: account rows                                                  *)
(***************************************************************************)

\* Bound of the account model: the number of account rows in the bucket.
MaxRows == 1

\* The account numbers used: 0, one with four different bytes, 2^32 - 1.
Accounts == {U32(0, 0), U32(1027, 513), U32(65535, 65535)}

\* The encrypted key blobs used (a nil blob has length 0 as well).
Blobs == {<<>>, <<1>>, <<0, 0>>, <<2, 255>>}

\* What may follow a record in the backing array of the slice Get returns.
Slacks == {<<>>, <<0>>}

\* The outcome of the last call: the function, its arguments, its result.
Res(fn, r, arg) ==
    [fn |-> fn, outcome |-> r.outcome, err |-> r.err, val |-> r.val,
     arg |-> arg]
NoRes == Res("none", [outcome |-> "none", err |-> Nil, val |-> <<>>], <<>>)
PutRes(fn, p, arg) == Res(fn, IF p.err = Nil THEN Ok(<<>>) ELSE Err(p.err), arg)

\* s with the bytes bs written at position pos (1-based).
WithBytes(s, pos, bs) ==
    [i \in 1..Len(s) |->
        IF i >= pos /\ i < pos + Len(bs) THEN bs[i - pos + 1] ELSE s[i]]

\* A well-formed row, and the records derived from it that a bucket may
\* hold under an account key: every truncation, another type tag, and
\* other values in each of the three length prefixes.
BaseRow ==
    serializeAccountRow([acctType |-> accountMASS,
                         rawData |-> serializeHDAccountKey(<<1>>, <<2, 255>>)])
OtherLens == {<<0, 0, 0, 0>>, <<3, 0, 0, 0>>, <<10, 0, 0, 0>>,
              <<12, 0, 0, 0>>, <<0, 0, 0, 128>>, <<251, 255, 255, 255>>,
              <<255, 255, 255, 255>>}
RawRows ==
    {SubSeq(BaseRow, 1, n) : n \in 0..Len(BaseRow)}
        \cup {WithBytes(BaseRow, 1, <<1>>)}
        \cup {WithBytes(WithBytes(BaseRow, 1, <<1>>), 2, <<12, 0, 0, 0>>)}
        \cup {WithBytes(BaseRow, pos, l) : pos \in {2, 6, 11}, l \in OtherLens}

NoWrite == [kind |-> "none", pub |-> <<>>, priv |-> <<>>, row |-> <<>>]

RowCount(b) ==
    Cardinality({a \in Accounts : HasKey(b, uint32ToBytes(a))})

MayStore(a) ==
    HasKey(bucket, uint32ToBytes(a)) \/ RowCount(bucket) < MaxRows

InitAcct ==
    /\ bucket = EmptyBucket
    /\ res = NoRes
    /\ hist = [a \in Accounts |-> NoWrite]

\* putAccountInfo(b, scope, account, encryptedPubKey, encryptedPrivKey)
PutAccountInfo ==
    /\ \E a \in Accounts, pub \in Blobs, priv \in Blobs :
         /\ MayStore(a)
         /\ LET p == putAccountInfo(bucket, a, pub, priv)
            IN  /\ bucket' = p.b
                /\ res' = PutRes("putAccountInfo", p, [account |-> a])
                /\ hist' = [hist EXCEPT ![a] =
                              [kind |-> "info", pub |-> pub, priv |-> priv,
                               row |-> <<>>]]
    /\ UNCHANGED <<txVars, prefixVars, regVars, verVars>>

\* Some other record is stored under an account key (b.Put directly, or a
\* damaged store).
StoreRawRow ==
    /\ \E a \in Accounts, row \in RawRows :
         /\ MayStore(a)
         /\ LET p == Put(bucket, uint32ToBytes(a), row)
            IN  /\ bucket' = p.b
                /\ res' = PutRes("Put", p, [account |-> a])
                /\ hist' = [hist EXCEPT ![a] =
                              [kind |-> "raw", pub |-> <<>>, priv |-> <<>>,
                               row |-> row]]
    /\ UNCHANGED <<txVars, prefixVars, regVars, verVars>>

\* fetchAccountInfo(b, account)
FetchAccountInfo ==
    /\ \E a \in Accounts, slack \in Slacks :
         res' = Res("fetchAccountInfo", fetchAccountInfo(bucket, a, slack),
                    [account |-> a])
    /\ UNCHANGED <<bucket, hist, txVars, prefixVars, regVars, verVars>>

NextAcct ==
    \/ PutAccountInfo
    \/ FetchAccountInfo

NextRaw ==
    \/ PutAccountInfo
    \/ StoreRawRow
    \/ FetchAccountInfo

(***************************************************************************)
(* Keystore: branch child-index counters                                   *)
(***************************************************************************)

ErrInitEx == "failed to init externalChildNumName"
ErrInitIn == "failed to init internalChildNumName"
ErrUpdateChildNum == "failed to update branchChildNum"
ErrGetChildNum == "failed to get child number"
ErrNoExChildNum == "required external branch child number not stored"
ErrNoInChildNum == "required internal branch child number not stored"

\* initBranchChildNum
initBranchChildNum(b) ==
    LET e == Put(b, externalChildNumName, uint32ToBytes(U32FromInt(0)))
    IN  IF e.err # Nil THEN [b |-> e.b, err |-> ErrInitEx]
        ELSE LET i == Put(e.b, internalChildNumName,
                          uint32ToBytes(U32FromInt(0)))
             IN  IF i.err # Nil THEN [b |-> i.b, err |-> ErrInitIn] ELSE i

\* A mutant of updateChildNum: the selector is ignored.
updateChildNumExternalOnly(b, internal, nextIndex) ==
    LET p == Put(b, externalChildNumName, uint32ToBytes(nextIndex))
    IN  IF p.err # Nil THEN [b |-> p.b, err |-> ErrUpdateChildNum] ELSE p

\* updateChildNum
updateChildNum(b, internal, nextIndex) ==
    LET k == IF internal THEN internalChildNumName ELSE externalChildNumName
        p == Put(b, k, uint32ToBytes(nextIndex))
    IN  IF p.err # Nil THEN [b |-> p.b, err |-> ErrUpdateChildNum] ELSE p

\* fetchChildNum: returns (internal, external).
fetchChildNum(b) ==
    LET ex == Get(b, externalChildNumName)
    IN  IF ex.err # Nil THEN Err(ex.err)
        ELSE IF ex.val.nil THEN Err(ErrNoExChildNum)
        ELSE LET in == Get(b, internalChildNumName)
             IN  IF in.err # Nil THEN Err(in.err)
                 ELSE IF in.val.nil THEN Err(ErrNoInChildNum)
                 ELSE IF Len(in.val.b) < 4 \/ Len(ex.val.b) < 4 THEN Panic
                 ELSE Ok([internal |-> LittleEndianUint32(in.val.b),
                          external |-> LittleEndianUint32(ex.val.b)])

\* getChildNum: binary.LittleEndian.Uint32 indexes its argument up to [3].
getChildNum(b, internal) ==
    LET k == IF internal THEN internalChildNumName ELSE externalChildNumName
        g == Get(b, k)
    IN  IF g.err # Nil THEN Err(ErrGetChildNum)
        ELSE IF Len(g.val.b) < 4 THEN Panic
        ELSE Ok(LittleEndianUint32(g.val.b))

\* The child indexes used: 0, 5, 2^16 and 2^32 - 1.
ChildNums == {U32(0, 0), U32(0, 5), U32(1, 0), U32(65535, 65535)}

\* What the calls so far wrote: whether initBranchChildNum ran, and the
\* last index written for each selector.
NoChildHist == [init |-> FALSE, inSet |-> FALSE, in |-> U32(0, 0),
                exSet |-> FALSE, ex |-> U32(0, 0)]

InitChild ==
    /\ bucket = EmptyBucket
    /\ res = NoRes
    /\ hist = NoChildHist

\* initBranchChildNum(b)
InitBranchChildNum ==
    /\ LET p == initBranchChildNum(bucket)
       IN  /\ bucket' = p.b
           /\ res' = PutRes("initBranchChildNum", p, <<>>)
    /\ hist' = [init |-> TRUE, inSet |-> TRUE, in |-> U32(0, 0),
                exSet |-> TRUE, ex |-> U32(0, 0)]
    /\ UNCHANGED <<txVars, prefixVars, regVars, verVars>>

\* updateChildNum(b, internal, nextIndex)
UpdateChildNum ==
    /\ \E internal \in BOOLEAN, n \in ChildNums :
         /\ LET p == updateChildNum(bucket, internal, n)
            IN  /\ bucket' = p.b
                /\ res' = PutRes("updateChildNum", p,
                                 [internal |-> internal, n |-> n])
         /\ hist' = IF internal
                    THEN [hist EXCEPT !.inSet = TRUE, !.in = n]
                    ELSE [hist EXCEPT !.exSet = TRUE, !.ex = n]
    /\ UNCHANGED <<txVars, prefixVars, regVars, verVars>>

\* fetchChildNum(b)
FetchChildNum ==
    /\ res' = Res("fetchChildNum", fetchChildNum(bucket), <<>>)
    /\ UNCHANGED <<bucket, hist, txVars, prefixVars, regVars, verVars>>

\* getChildNum(b, internal)
GetChildNum ==
    /\ \E internal \in BOOLEAN :
         res' = Res("getChildNum", getChildNum(bucket, internal),
                    [internal |-> internal])
    /\ UNCHANGED <<bucket, hist, txVars, prefixVars, regVars, verVars>>

NextChild ==
    \/ InitBranchChildNum
    \/ UpdateChildNum
    \/ FetchChildNum
    \/ GetChildNum

(***************************************************************************)
(* Keystore: per-address encrypted public keys                             *)
(***************************************************************************)

\* A mutant of putEncryptedPubKey: both copies land on key[:4].
putEncryptedPubKeyOverlap(b, branch, index, pubKey) ==
    Put(b, uint32ToBytes(index) \o <<0, 0, 0, 0>>, pubKey)

\* putEncryptedPubKey
putEncryptedPubKey(b, branch, index, pubKey) ==
    Put(b, uint32ToBytes(branch) \o uint32ToBytes(index), pubKey)

\* The loop of fetchEncryptedPubKey over the entries from position i.
RECURSIVE DecodeEntries(_, _)
DecodeEntries(entries, i) ==
    IF i > Len(entries) THEN <<>>
    ELSE <<[branch |-> LittleEndianUint32(SubSeq(entries[i].Key, 1, 4)),
            index |-> LittleEndianUint32(SubSeq(entries[i].Key, 5, 8)),
            pubkeyEnc |-> entries[i].Value]>>
           \o DecodeEntries(entries, i + 1)

\* fetchEncryptedPubKey: key[:4] and key[4:8] of every entry of the bucket.
fetchEncryptedPubKey(b) ==
    LET entries == GetByPrefix(b, <<>>)
    IN  IF \E i \in 1..Len(entries) : Len(entries[i].Key) < 8 THEN Panic
        ELSE Ok(DecodeEntries(entries, 1))

\* The branch numbers and address indexes used; their 8-byte keys are not
\* in numeric order.
Branches == {U32(0, 1), U32(0, 256)}
Indexes == {U32(0, 3), U32(1, 0)}
PubKeyBlobs == {<<>>, <<1>>, <<2, 255>>}

InitPub ==
    /\ bucket = EmptyBucket
    /\ res = NoRes
    /\ hist = <<>>

\* putEncryptedPubKey(b, branch, index, pubKey); hist maps each pair put so
\* far to the blob of its last put.
PutEncryptedPubKey ==
    /\ \E branch \in Branches, index \in Indexes, blob \in PubKeyBlobs :
         /\ LET p == putEncryptedPubKey(bucket, branch, index, blob)
            IN  /\ bucket' = p.b
                /\ res' = PutRes("putEncryptedPubKey", p,
                                 [branch |-> branch, index |-> index])
         /\ hist' = [q \in DOMAIN hist \cup {<<branch, index>>} |->
                        IF q = <<branch, index>> THEN blob ELSE hist[q]]
    /\ UNCHANGED <<txVars, prefixVars, regVars, verVars>>

\* fetchEncryptedPubKey(b)
FetchEncryptedPubKey ==
    /\ res' = Res("fetchEncryptedPubKey", fetchEncryptedPubKey(bucket), <<>>)
    /\ UNCHANGED <<bucket, hist, txVars, prefixVars, regVars, verVars>>

NextPub ==
    \/ PutEncryptedPubKey
    \/ FetchEncryptedPubKey

(***************************************************************************)
(* Keystore: required and optional records                                 *)
(***************************************************************************)

ErrStoreMasterPriv == "failed to store master private key parameters"
ErrStoreMasterPub == "failed to store master public key parameters"
ErrNoMasterPub == "required master public key parameters not stored"
ErrStoreCryptoPub == "failed to store encrypted crypto public key"
ErrStoreCryptoPriv == "failed to store encrypted crypto private key"
ErrStoreCryptoEntropy == "failed to store encrypted crypto script key"
ErrNoCryptoPub == "required encrypted crypto public not stored"
ErrNoCoinType == "required coin type not stored"
ErrStoreBranchKeys == "failed to store branchKeys"
ErrNoExBranchPub == "required external branch public key not stored"
ErrNoInBranchPub == "required internal branch public key not stored"

\* A result of a put* that wrote nothing.
NoPut(b) == [b |-> b, err |-> Nil]

\* putMasterKeyParams: a nil parameter is not written.
putMasterKeyParams(b, pubParams, privParams) ==
    LET v == IF privParams.nil THEN NoPut(b)
             ELSE Put(b, masterPrivKeyName, privParams.b)
    IN  IF v.err # Nil THEN [b |-> v.b, err |-> ErrStoreMasterPriv]
        ELSE LET u == IF pubParams.nil THEN NoPut(v.b)
                      ELSE Put(v.b, masterPubKeyName, pubParams.b)
             IN  IF u.err # Nil THEN [b |-> u.b, err |-> ErrStoreMasterPub]
                 ELSE u

\* fetchMasterKeyParams
fetchMasterKeyParams(b) ==
    LET pub == Get(b, masterPubKeyName)
    IN  IF pub.err # Nil THEN Err(pub.err)
        ELSE IF pub.val.nil THEN Err(ErrNoMasterPub)
        ELSE LET priv == Get(b, masterPrivKeyName)
             IN  IF priv.err # Nil THEN Err(priv.err)
                 ELSE Ok([pubParams |-> Slice(pub.val.b),
                          privParams |-> priv.val])

\* putCryptoKeys: a nil parameter is not written.
putCryptoKeys(b, pubKeyEncrypted, privKeyEncrypted, entropyKeyEncrypted) ==
    LET u == IF pubKeyEncrypted.nil THEN NoPut(b)
             ELSE Put(b, cryptoPubKeyName, pubKeyEncrypted.b)
    IN  IF u.err # Nil THEN [b |-> u.b, err |-> ErrStoreCryptoPub]
        ELSE LET v == IF privKeyEncrypted.nil THEN NoPut(u.b)
                      ELSE Put(u.b, cryptoPrivKeyName, privKeyEncrypted.b)
             IN  IF v.err # Nil THEN [b |-> v.b, err |-> ErrStoreCryptoPriv]
                 ELSE LET w == IF entropyKeyEncrypted.nil THEN NoPut(v.b)
                               ELSE Put(v.b, cryptoEntropyKeyName,
                                        entropyKeyEncrypted.b)
                      IN  IF w.err # Nil
                          THEN [b |-> w.b, err |-> ErrStoreCryptoEntropy]
                          ELSE w

\* fetchCryptoKeys: the errors of the second and third Get are not looked at.
fetchCryptoKeys(b) ==
    LET pub == Get(b, cryptoPubKeyName)
    IN  IF pub.err # Nil THEN Err(pub.err)
        ELSE IF pub.val.nil THEN Err(ErrNoCryptoPub)
        ELSE Ok([pubKey |-> Slice(pub.val.b),
                 privKey |-> Get(b, cryptoPrivKeyName).val,
                 entropyKey |-> Get(b, cryptoEntropyKeyName).val])

\* putCoinType
putCoinType(b, coin) == Put(b, coinTypeName, uint32ToBytes(coin))

\* fetchCoinType
fetchCoinType(b) ==
    LET g == Get(b, coinTypeName)
    IN  IF g.err # Nil THEN Err(g.err)
        ELSE IF g.val.nil THEN Err(ErrNoCoinType)
        ELSE IF Len(g.val.b) < 4 THEN Panic
        ELSE Ok(LittleEndianUint32(g.val.b))

\* putBranchPubKeys
putBranchPubKeys(b, encryptedInternalKey, encryptedExternalKey) ==
    LET e == Put(b, externalBranchPubKeyName, encryptedExternalKey)
    IN  IF e.err # Nil THEN [b |-> e.b, err |-> ErrStoreBranchKeys]
        ELSE LET i == Put(e.b, internalBranchPubKeyName, encryptedInternalKey)
             IN  IF i.err # Nil THEN [b |-> i.b, err |-> ErrStoreBranchKeys]
                 ELSE i

\* fetchBranchPubKeys: returns (internal, external).
fetchBranchPubKeys(b) ==
    LET ex == Get(b, externalBranchPubKeyName)
    IN  IF ex.err # Nil THEN Err(ex.err)
        ELSE IF ex.val.nil THEN Err(ErrNoExBranchPub)
        ELSE LET in == Get(b, internalBranchPubKeyName)
             IN  IF in.err # Nil THEN Err(in.err)
                 ELSE IF in.val.nil THEN Err(ErrNoInBranchPub)
                 ELSE Ok([internal |-> in.val.b, external |-> ex.val.b])

\* The blobs and numbers the records are written with.
KeyBlobs == {NilSlice, Slice(<<7>>)}
BranchBlobs == {<<8>>, <<8, 9>>}
StoredChildNums == {U32(0, 5)}
CoinTypes == {U32(0, 297)}
UsedAccounts == {U32(0, 1)}

InitReq ==
    /\ bucket = EmptyBucket
    /\ res = NoRes
    /\ hist = NoChildHist

\* putMasterKeyParams(b, pubParams, privParams)
PutMasterKeyParams ==
    /\ \E pubParams \in KeyBlobs, privParams \in KeyBlobs :
         LET p == putMasterKeyParams(bucket, pubParams, privParams)
         IN  /\ bucket' = p.b
             /\ res' = PutRes("putMasterKeyParams", p, <<>>)
    /\ UNCHANGED <<hist, txVars, prefixVars, regVars, verVars>>

\* fetchMasterKeyParams(b)
FetchMasterKeyParams ==
    /\ res' = Res("fetchMasterKeyParams", fetchMasterKeyParams(bucket), <<>>)
    /\ UNCHANGED <<bucket, hist, txVars, prefixVars, regVars, verVars>>

\* putCryptoKeys(b, pubKeyEncrypted, privKeyEncrypted, entropyKeyEncrypted)
PutCryptoKeys ==
    /\ \E pubKey \in KeyBlobs, privKey \in KeyBlobs, entropyKey \in KeyBlobs :
         LET p == putCryptoKeys(bucket, pubKey, privKey, entropyKey)
         IN  /\ bucket' = p.b
             /\ res' = PutRes("putCryptoKeys", p, <<>>)
    /\ UNCHANGED <<hist, txVars, prefixVars, regVars, verVars>>

\* fetchCryptoKeys(b)
FetchCryptoKeys ==
    /\ res' = Res("fetchCryptoKeys", fetchCryptoKeys(bucket), <<>>)
    /\ UNCHANGED <<bucket, hist, txVars, prefixVars, regVars, verVars>>

\* putAccountUsage(b, account)
PutAccountUsage ==
    /\ \E account \in UsedAccounts :
         LET p == putAccountUsage(bucket, account)
         IN  /\ bucket' = p.b
             /\ res' = PutRes("putAccountUsage", p, <<>>)
    /\ UNCHANGED <<hist, txVars, prefixVars, regVars, verVars>>

\* fetchAccountUsage(b)
FetchAccountUsage ==
    /\ res' = Res("fetchAccountUsage", fetchAccountUsage(bucket), <<>>)
    /\ UNCHANGED <<bucket, hist, txVars, prefixVars, regVars, verVars>>

\* putCoinType(b, coin)
PutCoinType ==
    /\ \E coin \in CoinTypes :
         LET p == putCoinType(bucket, coin)
         IN  /\ bucket' = p.b
             /\ res' = PutRes("putCoinType", p, <<>>)
    /\ UNCHANGED <<hist, txVars, prefixVars, regVars, verVars>>

\* fetchCoinType(b)
FetchCoinType ==
    /\ res' = Res("fetchCoinType", fetchCoinType(bucket), <<>>)
    /\ UNCHANGED <<bucket, hist, txVars, prefixVars, regVars, verVars>>

\* putBranchPubKeys(b, encryptedInternalKey, encryptedExternalKey)
PutBranchPubKeys ==
    /\ \E inKey \in BranchBlobs, exKey \in BranchBlobs :
         LET p == putBranchPubKeys(bucket, inKey, exKey)
         IN  /\ bucket' = p.b
             /\ res' = PutRes("putBranchPubKeys", p, <<>>)
    /\ UNCHANGED <<hist, txVars, prefixVars, regVars, verVars>>

\* fetchBranchPubKeys(b)
FetchBranchPubKeys ==
    /\ res' = Res("fetchBranchPubKeys", fetchBranchPubKeys(bucket), <<>>)
    /\ UNCHANGED <<bucket, hist, txVars, prefixVars, regVars, verVars>>

\* updateChildNum(b, internal, nextIndex), creating either counter alone
StoreChildNum ==
    /\ \E internal \in BOOLEAN, n \in StoredChildNums :
         LET p == updateChildNum(bucket, internal, n)
         IN  /\ bucket' = p.b
             /\ res' = PutRes("updateChildNum", p,
                              [internal |-> internal, n |-> n])
    /\ UNCHANGED <<hist, txVars, prefixVars, regVars, verVars>>

NextReq ==
    \/ PutMasterKeyParams
    \/ FetchMasterKeyParams
    \/ PutCryptoKeys
    \/ FetchCryptoKeys
    \/ PutAccountUsage
    \/ FetchAccountUsage
    \/ PutCoinType
    \/ FetchCoinType
    \/ PutBranchPubKeys
    \/ FetchBranchPubKeys
    \/ StoreChildNum
    \/ FetchChildNum
    \/ GetChildNum

(***************************************************************************)
(* storage: the version stamp, CheckVersion                                *)
(***************************************************************************)

\* CurrentStorageVersion int32 = 1
CurrentStorageVersion == 1

ErrVersionCheckFailed == "storage version check failed"
ErrDbDoesNotExist == "database.ErrDbDoesNotExist"
ErrCreateVer == "create ver file error"
ErrWriteVer == "binary.Write error"
ErrStatVer == "Stat error"
ErrReadVer == "read version file error"
ErrUnmarshal == "unmarshal failed"

\* A UTF-8 continuation byte.
IsCont(b) == b >= 128 /\ b <= 191

\* utf8.DecodeRuneInString(s[i:]): the width of the well-formed encoding
\* that starts at position i (1-based), 0 if there is none (RuneError, 1).
RuneWidth(s, i) ==
    LET n == Len(s) - i + 1
        b0 == s[i]
        b1 == IF n >= 2 THEN s[i + 1] ELSE 0
        b2 == IF n >= 3 THEN s[i + 2] ELSE 0
        b3 == IF n >= 4 THEN s[i + 3] ELSE 0
    IN  IF b0 < 128 THEN 1
        ELSE IF b0 >= 194 /\ b0 <= 223
        THEN (IF IsCont(b1) THEN 2 ELSE 0)
        ELSE IF b0 = 224
        THEN (IF b1 >= 160 /\ b1 <= 191 /\ IsCont(b2) THEN 3 ELSE 0)
        ELSE IF b0 = 237
        THEN (IF b1 >= 128 /\ b1 <= 159 /\ IsCont(b2) THEN 3 ELSE 0)
        ELSE IF b0 >= 225 /\ b0 <= 239
        THEN (IF IsCont(b1) /\ IsCont(b2) THEN 3 ELSE 0)
        ELSE IF b0 = 240
        THEN (IF b1 >= 144 /\ b1 <= 191 /\ IsCont(b2) /\ IsCont(b3)
              THEN 4 ELSE 0)
        ELSE IF b0 >= 241 /\ b0 <= 243
        THEN (IF IsCont(b1) /\ IsCont(b2) /\ IsCont(b3) THEN 4 ELSE 0)
        ELSE IF b0 = 244
        THEN (IF b1 >= 128 /\ b1 <= 143 /\ IsCont(b2) /\ IsCont(b3)
              THEN 4 ELSE 0)
        ELSE 0

\* U+FFFD, the replacement rune, in UTF-8.
RuneError == <<239, 191, 189>>

\* The string a JSON string written by json.Marshal reads back as: every
\* byte that does not start a well-formed encoding is written as �.
RECURSIVE JSONString(_, _)
JSONString(s, i) ==
    IF i > Len(s) THEN <<>>
    ELSE LET w == RuneWidth(s, i)
         IN  IF w = 0 THEN RuneError \o JSONString(s, i + 1)
             ELSE SubSeq(s, i, i + w - 1) \o JSONString(s, i + w)

\* type storageVersion struct
StorageVersion(dbtype, version) == [Dbtype |-> dbtype, Version |-> version]

\* A member of a JSON object that is left out.
Omitted == [has |-> FALSE, v |-> <<>>]
Member(v) == [has |-> TRUE, v |-> v]

\* json.Marshal(storageVersion{...}); both members are omitempty.
Marshal(ver) ==
    [dbtype |-> IF ver.Dbtype = <<>> THEN Omitted
                ELSE Member(JSONString(ver.Dbtype, 1)),
     version |-> IF ver.Version = 0 THEN Omitted
                 ELSE Member(<<ver.Version>>)]

\* json.Unmarshal(buf, &ver) of what Marshal wrote.
Unmarshal(j) ==
    StorageVersion(IF j.dbtype.has THEN j.dbtype.v ELSE <<>>,
                   IF j.version.has THEN j.version.v[1] ELSE 0)

\* The ".ver" file of a storage root: missing, holding a JSON document, or
\* cut short by a failed write.
NoFile == [kind |-> "none", json |-> [dbtype |-> Omitted, version |-> Omitted]]
PartialFile == [kind |-> "partial",
                json |-> [dbtype |-> Omitted, version |-> Omitted]]
VerFile(j) == [kind |-> "json", json |-> j]

\* How the file system answers a call: os.Create, the write, os.Open, Stat
\* and the read can each fail.
CreateIO == {"ok", "create fails", "write fails"}
OpenIO == {"ok", "open fails", "stat fails", "read fails"}

\* CheckVersion(dbtype, storPath, create) on the files fs, the file system
\* answering io; returns the files afterwards and the error.
CheckVersion(fs, dbtype, storPath, create, io) ==
    IF create
    THEN IF io = "create fails" THEN [fs |-> fs, err |-> ErrCreateVer]
         ELSE IF io = "write fails"
         THEN [fs |-> [fs EXCEPT ![storPath] = PartialFile],
               err |-> ErrWriteVer]
         ELSE [fs |-> [fs EXCEPT ![storPath] =
                          VerFile(Marshal(StorageVersion(dbtype,
                                              CurrentStorageVersion)))],
               err |-> Nil]
    ELSE IF fs[storPath].kind = "none"
         THEN [fs |-> fs, err |-> ErrDbDoesNotExist]
         ELSE IF io = "open fails" THEN [fs |-> fs, err |-> ErrVersionCheckFailed]
         ELSE IF io = "stat fails" THEN [fs |-> fs, err |-> ErrStatVer]
         ELSE IF io = "read fails" THEN [fs |-> fs, err |-> ErrReadVer]
         ELSE IF fs[storPath].kind = "partial"
         THEN [fs |-> fs, err |-> ErrUnmarshal]
         ELSE LET ver == Unmarshal(fs[storPath].json)
              IN  IF ver.Version = CurrentStorageVersion
                     /\ ver.Dbtype = dbtype
                  THEN [fs |-> fs, err |-> Nil]
                  ELSE [fs |-> fs, err |-> ErrVersionCheckFailed]

\* The storage roots, and the type names as byte strings: "", "l", "m",
\* "\xc3\xa9" (e acute), "\xc3" and "\xff" (not UTF-8), and U+FFFD.
StorPaths == {"root1", "root2"}
StampTypes == {<<>>, <<108>>, <<109>>, <<195, 169>>, <<195>>, <<255>>,
               <<239, 191, 189>>}

NoVerRes == [fn |-> "none", dbtype |-> <<>>, storPath |-> "root1",
             create |-> FALSE, io |-> "ok", err |-> Nil, changed |-> FALSE]
NotStamped == [set |-> FALSE, t |-> <<>>]

InitVer ==
    /\ files = [q \in StorPaths |-> NoFile]
    /\ verres = NoVerRes
    /\ stamped = [q \in StorPaths |-> NotStamped]

\* CheckVersion(dbtype, storPath, true)
CheckVersionCreate ==
    /\ \E dbtype \in StampTypes, storPath \in StorPaths, io \in CreateIO :
         LET r == CheckVersion(files, dbtype, storPath, TRUE, io)
         IN  /\ files' = r.fs
             /\ verres' = [fn |-> "CheckVersion", dbtype |-> dbtype,
                           storPath |-> storPath, create |-> TRUE,
                           io |-> io, err |-> r.err,
                           changed |-> r.fs # files]
             /\ stamped' = IF r.err = Nil
                           THEN [stamped EXCEPT ![storPath] =
                                    [set |-> TRUE, t |-> dbtype]]
                           ELSE IF r.fs # files
                           THEN [stamped EXCEPT ![storPath] = NotStamped]
                           ELSE stamped
    /\ UNCHANGED <<txVars, prefixVars, regVars, ksVars>>

\* CheckVersion(dbtype, storPath, false)
CheckVersionOpen ==
    /\ \E dbtype \in StampTypes, storPath \in StorPaths, io \in OpenIO :
         LET r == CheckVersion(files, dbtype, storPath, FALSE, io)
         IN  /\ files' = r.fs
             /\ verres' = [fn |-> "CheckVersion", dbtype |-> dbtype,
                           storPath |-> storPath, create |-> FALSE,
                           io |-> io, err |-> r.err,
                           changed |-> r.fs # files]
    /\ UNCHANGED <<stamped, txVars, prefixVars, regVars, ksVars>>

NextVer ==
    \/ CheckVersionCreate
    \/ CheckVersionOpen

(***************************************************************************)
(* Keystore: the accessors over a bucket whose Get or Put fails            *)
(***************************************************************************)

\* The bucket b with Get, or Put, failing on the keys f during one call.
GetFailing(b, f) == [b EXCEPT !.getErr = f]
PutFailing(b, f) == [b EXCEPT !.putErr = f]

\* The bucket as the call leaves it, the failure over.
Recovered(b) == [b EXCEPT !.getErr = {}, !.putErr = {}]

\* No failure, or a failure on one of the keys ks.
FailSets(ks) == {{}} \cup {{k} : k \in ks}

\* The values the records are written with.
OneBlob == <<7>>
OneAccount == U32(0, 1)
OneChildNum == U32(0, 5)

\* putMasterKeyParams over a bucket whose Put may fail
TryPutMasterKeyParams ==
    /\ \E f \in FailSets({masterPrivKeyName, masterPubKeyName}) :
         LET p == putMasterKeyParams(PutFailing(bucket, f), Slice(OneBlob),
                  Slice(OneBlob))
         IN  /\ bucket' = Recovered(p.b)
             /\ res' = PutRes("putMasterKeyParams", p,
                              [failed |-> f, arg |-> <<>>])
    /\ UNCHANGED <<hist, txVars, prefixVars, regVars, verVars>>

\* fetchMasterKeyParams over a bucket whose Get may fail
TryFetchMasterKeyParams ==
    /\ \E f \in FailSets({masterPrivKeyName, masterPubKeyName}) :
         res' = Res("fetchMasterKeyParams",
                    fetchMasterKeyParams(GetFailing(bucket, f)),
                    [failed |-> f, arg |-> <<>>])
    /\ UNCHANGED <<bucket, hist, txVars, prefixVars, regVars, verVars>>

\* putCryptoKeys over a bucket whose Put may fail
TryPutCryptoKeys ==
    /\ \E f \in FailSets({cryptoPubKeyName, cryptoPrivKeyName,
          cryptoEntropyKeyName}) :
         LET p == putCryptoKeys(PutFailing(bucket, f), Slice(OneBlob),
                  Slice(OneBlob), Slice(OneBlob))
         IN  /\ bucket' = Recovered(p.b)
             /\ res' = PutRes("putCryptoKeys", p,
                              [failed |-> f, arg |-> <<>>])
    /\ UNCHANGED <<hist, txVars, prefixVars, regVars, verVars>>

\* fetchCryptoKeys over a bucket whose Get may fail
TryFetchCryptoKeys ==
    /\ \E f \in FailSets({cryptoPubKeyName, cryptoPrivKeyName,
          cryptoEntropyKeyName}) :
         res' = Res("fetchCryptoKeys",
                    fetchCryptoKeys(GetFailing(bucket, f)),
                    [failed |-> f, arg |-> <<>>])
    /\ UNCHANGED <<bucket, hist, txVars, prefixVars, regVars, verVars>>

\* putCoinType over a bucket whose Put may fail
TryPutCoinType ==
    /\ \E f \in FailSets({coinTypeName}) :
         LET p == putCoinType(PutFailing(bucket, f), OneAccount)
         IN  /\ bucket' = Recovered(p.b)
             /\ res' = PutRes("putCoinType", p,
                              [failed |-> f, arg |-> <<>>])
    /\ UNCHANGED <<hist, txVars, prefixVars, regVars, verVars>>

\* fetchCoinType over a bucket whose Get may fail
TryFetchCoinType ==
    /\ \E f \in FailSets({coinTypeName}) :
         res' = Res("fetchCoinType",
                    fetchCoinType(GetFailing(bucket, f)),
                    [failed |-> f, arg |-> <<>>])
    /\ UNCHANGED <<bucket, hist, txVars, prefixVars, regVars, verVars>>

\* putBranchPubKeys over a bucket whose Put may fail
TryPutBranchPubKeys ==
    /\ \E f \in FailSets({externalBranchPubKeyName, internalBranchPubKeyName}) :
         LET p == putBranchPubKeys(PutFailing(bucket, f), OneBlob, OneBlob)
         IN  /\ bucket' = Recovered(p.b)
             /\ res' = PutRes("putBranchPubKeys", p,
                              [failed |-> f, arg |-> <<>>])
    /\ UNCHANGED <<hist, txVars, prefixVars, regVars, verVars>>

\* fetchBranchPubKeys over a bucket whose Get may fail
TryFetchBranchPubKeys ==
    /\ \E f \in FailSets({externalBranchPubKeyName, internalBranchPubKeyName}) :
         res' = Res("fetchBranchPubKeys",
                    fetchBranchPubKeys(GetFailing(bucket, f)),
                    [failed |-> f, arg |-> <<>>])
    /\ UNCHANGED <<bucket, hist, txVars, prefixVars, regVars, verVars>>

\* initBranchChildNum over a bucket whose Put may fail
TryInitBranchChildNum ==
    /\ \E f \in FailSets({externalChildNumName, internalChildNumName}) :
         LET p == initBranchChildNum(PutFailing(bucket, f))
         IN  /\ bucket' = Recovered(p.b)
             /\ res' = PutRes("initBranchChildNum", p,
                              [failed |-> f, arg |-> <<>>])
    /\ UNCHANGED <<hist, txVars, prefixVars, regVars, verVars>>

\* updateChildNum over a bucket whose Put may fail
TryUpdateChildNum ==
    /\ \E internal \in BOOLEAN, f \in FailSets({externalChildNumName,
          internalChildNumName}) :
         LET p == updateChildNum(PutFailing(bucket, f), internal, OneChildNum)
         IN  /\ bucket' = Recovered(p.b)
             /\ res' = PutRes("updateChildNum", p,
                              [failed |-> f, arg |-> internal])
    /\ UNCHANGED <<hist, txVars, prefixVars, regVars, verVars>>

\* fetchChildNum over a bucket whose Get may fail
TryFetchChildNum ==
    /\ \E f \in FailSets({externalChildNumName, internalChildNumName}) :
         res' = Res("fetchChildNum",
                    fetchChildNum(GetFailing(bucket, f)),
                    [failed |-> f, arg |-> <<>>])
    /\ UNCHANGED <<bucket, hist, txVars, prefixVars, regVars, verVars>>

\* getChildNum over a bucket whose Get may fail
TryGetChildNum ==
    /\ \E internal \in BOOLEAN, f \in FailSets({externalChildNumName,
          internalChildNumName}) :
         res' = Res("getChildNum",
                    getChildNum(GetFailing(bucket, f), internal),
                    [failed |-> f, arg |-> internal])
    /\ UNCHANGED <<bucket, hist, txVars, prefixVars, regVars, verVars>>

\* putAccountInfo over a bucket whose Put may fail
TryPutAccountInfo ==
    /\ \E f \in FailSets({accountUsageName, uint32ToBytes(OneAccount)}) :
         LET p == putAccountInfo(PutFailing(bucket, f), OneAccount, OneBlob,
                  OneBlob)
         IN  /\ bucket' = Recovered(p.b)
             /\ res' = PutRes("putAccountInfo", p,
                              [failed |-> f, arg |-> <<>>])
    /\ UNCHANGED <<hist, txVars, prefixVars, regVars, verVars>>

\* fetchAccountUsage over a bucket whose Get may fail
TryFetchAccountUsage ==
    /\ \E f \in FailSets({accountUsageName}) :
         res' = Res("fetchAccountUsage",
                    fetchAccountUsage(GetFailing(bucket, f)),
                    [failed |-> f, arg |-> <<>>])
    /\ UNCHANGED <<bucket, hist, txVars, prefixVars, regVars, verVars>>

\* fetchAccountInfo over a bucket whose Get may fail
TryFetchAccountInfo ==
    /\ \E f \in FailSets({uint32ToBytes(OneAccount)}) :
         res' = Res("fetchAccountInfo",
                    fetchAccountInfo(GetFailing(bucket, f), OneAccount,
                        <<>>),
                    [failed |-> f, arg |-> <<>>])
    /\ UNCHANGED <<bucket, hist, txVars, prefixVars, regVars, verVars>>

NextErr ==
    \/ TryPutMasterKeyParams
    \/ TryFetchMasterKeyParams
    \/ TryPutCryptoKeys
    \/ TryFetchCryptoKeys
    \/ TryPutCoinType
    \/ TryFetchCoinType
    \/ TryPutBranchPubKeys
    \/ TryFetchBranchPubKeys
    \/ TryInitBranchChildNum
    \/ TryUpdateChildNum
    \/ TryFetchChildNum
    \/ TryGetChildNum
    \/ TryPutAccountInfo
    \/ TryFetchAccountUsage
    \/ TryFetchAccountInfo

(***************************************************************************)
(* Keystore: the account usage counter                                     *)
(***************************************************************************)

\* The account numbers put so far, and the one put last.
NoUsageHist == [put |-> {}, last |-> U32(0, 0)]

InitUsage ==
    /\ bucket = EmptyBucket
    /\ res = NoRes
    /\ hist = NoUsageHist

\* putAccountInfo(b, scope, account, pub, priv), in any order of accounts
PutAccountInfoSeq ==
    /\ \E account \in Accounts, pub \in Blobs :
         LET p == putAccountInfo(bucket, account, pub, <<>>)
         IN  /\ bucket' = p.b
             /\ res' = PutRes("putAccountInfo", p, account)
             /\ hist' = IF p.err = Nil
                        THEN [put |-> hist.put \cup {account},
                              last |-> account]
                        ELSE hist
    /\ UNCHANGED <<txVars, prefixVars, regVars, verVars>>

NextUsage ==
    \/ PutAccountInfoSeq
    \/ FetchAccountUsage

(***************************************************************************)
(* Keystore: the multi-valued records next to the fixed-key records        *)
(***************************************************************************)

masterKMPubKeyName == <<109, 107, 109, 112, 117, 98>>    \* "mkmpub"
entropyEncKeyName == <<101, 110, 116>>    \* "ent"
masterHDPrivName == <<109, 104, 100, 112, 114, 105, 118>>    \* "mhdpriv"
masterHDPubName == <<109, 104, 100, 112, 117, 98>>    \* "mhdpub"
remarkName == <<114, 101, 109, 97, 114, 107>>    \* "remark"

\* The fixed key names of the codec.
FixedKeyNames ==
    {keystoreVersionName, masterKMPubKeyName, masterPrivKeyName,
     masterPubKeyName, cryptoPrivKeyName, cryptoPubKeyName,
     cryptoEntropyKeyName, entropyEncKeyName, masterHDPrivName,
     masterHDPubName, accountUsageName, coinTypeName, remarkName,
     externalBranchPubKeyName, internalBranchPubKeyName,
     externalChildNumName, internalChildNumName}

\* The records of b under the fixed key names other than the account usage
\* counter, which putAccountInfo writes by design.
Singletons(b) ==
    [k \in (DOMAIN b.data) \cap (FixedKeyNames \ {accountUsageName}) |->
        b.data[k]]

\* Account numbers: 1, and the number whose 4 bytes spell "mpub".
RowAccounts == {OneAccount, LittleEndianUint32(masterPubKeyName)}

\* (branch, index) pairs: (1, 3), and the pair whose 8 bytes spell
\* "coinType".
PubKeyPaths ==
    {<<U32(0, 1), U32(0, 3)>>,
     <<LittleEndianUint32(SubSeq(coinTypeName, 1, 4)),
       LittleEndianUint32(SubSeq(coinTypeName, 5, 8))>>}

InitKeys ==
    /\ bucket = EmptyBucket
    /\ res = NoRes
    /\ hist = <<>>

\* putAccountInfo(b, scope, account, pub, priv); the outcome records the key
\* of the row and the fixed-key records as they were before the call.
PutAccountInfoAt ==
    /\ \E account \in RowAccounts :
         LET p == putAccountInfo(bucket, account, OneBlob, OneBlob)
         IN  /\ bucket' = p.b
             /\ res' = PutRes("putAccountInfo", p,
                              [key |-> uint32ToBytes(account),
                               before |-> Singletons(bucket)])
    /\ UNCHANGED <<hist, txVars, prefixVars, regVars, verVars>>

\* putEncryptedPubKey(b, branch, index, pubKey), in the same bucket
PutEncryptedPubKeyAt ==
    /\ \E q \in PubKeyPaths :
         LET p == putEncryptedPubKey(bucket, q[1], q[2], OneBlob)
         IN  /\ bucket' = p.b
             /\ res' = PutRes("putEncryptedPubKey", p,
                              [key |-> uint32ToBytes(q[1])
                                         \o uint32ToBytes(q[2]),
                               before |-> Singletons(bucket)])
    /\ UNCHANGED <<hist, txVars, prefixVars, regVars, verVars>>

NextKeys ==
    \/ PutMasterKeyParams
    \/ FetchMasterKeyParams
    \/ PutCoinType
    \/ FetchCoinType
    \/ PutAccountInfoAt
    \/ PutEncryptedPubKeyAt

(***************************************************************************)
(* Specifications                                                          *)
(***************************************************************************)

IdleTx == InitTx
IdlePrefix ==
    /\ prefix = <<>>
    /\ key = <<>>
    /\ range = NoRange
    /\ srange = NoRange
IdleReg == InitReg
IdleKs ==
    /\ bucket = EmptyBucket
    /\ res = NoRes
    /\ hist = <<>>
IdleVer == InitVer

\* The transaction helpers View and Update.
TxInit == InitTx /\ IdlePrefix /\ IdleReg /\ IdleKs /\ IdleVer
SpecTx == TxInit /\ [][NextTx]_vars

\* BytesPrefix on every prefix and key within the bounds.
PrefixInit == IdleTx /\ InitPrefix /\ IdleReg /\ IdleKs /\ IdleVer
SpecPrefix == PrefixInit /\ [][NextPrefix]_vars

\* The two driver registries.
RegInit == IdleTx /\ IdlePrefix /\ InitReg /\ IdleKs /\ IdleVer
SpecReg == RegInit /\ [][NextReg]_vars

\* The account rows of the keystore.
AcctInit == IdleTx /\ IdlePrefix /\ IdleReg /\ InitAcct /\ IdleVer
SpecAcct == AcctInit /\ [][NextAcct]_vars

\* The account rows of the keystore, over a bucket that may hold any record
\* under an account key.
RawInit == IdleTx /\ IdlePrefix /\ IdleReg /\ InitAcct /\ IdleVer
SpecRaw == RawInit /\ [][NextRaw]_vars

\* The branch child-index counters of the keystore.
ChildInit == IdleTx /\ IdlePrefix /\ IdleReg /\ InitChild /\ IdleVer
SpecChild == ChildInit /\ [][NextChild]_vars

\* The per-address public keys of the keystore, in a bucket of their own.
PubInit == IdleTx /\ IdlePrefix /\ IdleReg /\ InitPub /\ IdleVer
SpecPub == PubInit /\ [][NextPub]_vars

\* The fixed-key records of the keystore bucket and their accessors.
ReqInit == IdleTx /\ IdlePrefix /\ IdleReg /\ InitReq /\ IdleVer
SpecReq == ReqInit /\ [][NextReq]_vars

\* The version stamp of the storage roots.
VerInit == IdleTx /\ IdlePrefix /\ IdleReg /\ IdleKs /\ InitVer
SpecVer == VerInit /\ [][NextVer]_vars

\* The accessors of the keystore over a bucket that can fail.
ErrInit == IdleTx /\ IdlePrefix /\ IdleReg /\ IdleKs /\ IdleVer
SpecErr == ErrInit /\ [][NextErr]_vars

\* The account usage counter under putAccountInfo.
UsageInit == IdleTx /\ IdlePrefix /\ IdleReg /\ InitUsage /\ IdleVer
SpecUsage == UsageInit /\ [][NextUsage]_vars

\* Account rows and per-address public keys in the bucket of the fixed-key
\* records.
KeysInit == IdleTx /\ IdlePrefix /\ IdleReg /\ InitKeys /\ IdleVer
SpecKeys == KeysInit /\ [][NextKeys]_vars

(***************************************************************************)
(* Properties                                                              *)
(***************************************************************************)

UpdateFailed(c) ==
    c.op = "Update" /\ c.pc = "done" /\ c.begun /\ c.fnret # Nil

UpdateBodyOk(c) ==
    c.op = "Update" /\ c.pc = "done" /\ c.begun /\ c.fnret = Nil

\* C1: when BeginTx succeeds and the body of an Update returns an error,
\* Update has called Rollback (once) and never Commit on the transaction,
\* returns the body's error unchanged, the committed contents are those
\* from before the call, and a read transaction begun next observes exactly
\* those contents.
C1_UpdateFailureRollsBack ==
    /\ UpdateFailed(call) =>
         /\ call.log = <<"BeginTx", "fn", "Rollback">>
         /\ tx.rollbacks = 1 /\ tx.commits = 0
         /\ tx.state = "rolledback"
         /\ call.ret = call.fnret
         /\ store = call.base
    /\ (call.op = "View" /\ call.observed.set /\ UpdateFailed(prev)) =>
         call.observed.val = prev.base

\* C1 witness: an Update whose body wrote two values that differ from the
\* committed contents and then failed.
C1_Witness ==
    /\ UpdateFailed(call)
    /\ call.nputs = 2
    /\ tx.work # store

\* C2: when the body of an Update returns nil, Update has called Commit
\* exactly once (and not Rollback) and returns Commit's own error; when
\* Commit failed the committed contents are those from before the call and
\* the transaction is terminated; when it succeeded they are the
\* transaction's.
C2_UpdateCommitResult ==
    UpdateBodyOk(call) =>
        /\ call.log = <<"BeginTx", "fn", "Commit">>
        /\ tx.commits = 1 /\ tx.rollbacks = 0
        /\ tx.state \in {"committed", "failed"}
        /\ (tx.state = "committed") <=> (call.ret = Nil)
        /\ (tx.state = "failed") <=> (call.ret = ErrCommit)
        /\ call.ret # Nil => store = call.base
        /\ call.ret = Nil => store = tx.work

\* C2 witness: an Update whose body succeeded after writing and whose
\* Commit failed.
C2_Witness ==
    /\ UpdateBodyOk(call)
    /\ call.ret = ErrCommit
    /\ tx.work # store

\* C3: when BeginReadTx succeeds View invokes the body once, calls Rollback
\* on the read transaction exactly once and only after the body returned,
\* whatever the body returned, and returns the body's result; when
\* BeginReadTx fails the body is never invoked and the begin error is
\* returned.
C3_ViewReleases ==
    /\ (call.op = "View" /\ call.pc = "fn") =>
         /\ tx.rollbacks = 0 /\ tx.state = "open"
         /\ call.log = <<"BeginReadTx", "fn">>
    /\ (call.op = "View" /\ call.pc = "done" /\ call.begun) =>
         /\ call.log = <<"BeginReadTx", "fn", "Rollback">>
         /\ call.fncalls = 1
         /\ tx.rollbacks = 1 /\ tx.state = "rolledback"
         /\ call.ret = call.fnret
    /\ (call.op = "View" /\ call.pc = "done" /\ ~call.begun) =>
         /\ call.fncalls = 0
         /\ call.log = <<"BeginReadTx">>
         /\ call.ret = ErrBegin

\* C3 witness: a View whose body read the buckets and then failed, released.
C3_Witness ==
    /\ call.op = "View" /\ call.pc = "done" /\ call.begun
    /\ call.observed.set
    /\ call.fnret \in FnErrors
    /\ tx.rollbacks = 1

\* The limit the prefix rule prescribes: nil when no byte of p is below
\* 0xff, else p cut after its last byte below 0xff, that byte plus one.
LimitRule(p) ==
    LET low == {i \in 1..Len(p) : p[i] < 255}
    IN  IF low = {} THEN NilSlice
        ELSE LET i == CHOOSE m \in low : \A n \in low : n <= m
             IN  Slice(SubSeq(p, 1, i - 1) \o <<p[i] + 1>>)

PrefixExact(r) ==
    /\ r.Start = prefix
    /\ HasPrefix(key, prefix) <=> InRange(r, key)
    /\ r.Limit = LimitRule(prefix)
    /\ r.Limit.nil <=> (\A i \in 1..Len(prefix) : prefix[i] = 255)

\* C4: for both BytesPrefix functions, a key starts with the prefix if and
\* only if Start <= key and (Limit is nil or key < Limit) in bytewise
\* order; Limit is nil exactly when the prefix is empty or all 0xff, and is
\* otherwise the prefix cut after its last byte below 0xff, incremented.
C4_PrefixRangeExact ==
    /\ range.set => PrefixExact(range)
    /\ srange.set => PrefixExact(srange)

\* C4 witness: the carry case, a prefix ending in 0xff and a key with that
\* prefix inside the range computed by both functions.
C4_Witness ==
    /\ range.set /\ srange.set
    /\ prefix = <<254, 255>>
    /\ key = <<254, 255, 0>>
    /\ range.Limit = Slice(<<255>>)
    /\ InRange(range, key) /\ InRange(srange, key)

TypesOf(ds) == {ds[i].Type : i \in 1..Len(ds)}

RegistryOk(reg) ==
    /\ \A i, j \in 1..Len(reg.list) :
         reg.list[i].Type = reg.list[j].Type => i = j
    /\ \A t \in DbTypes : (reg.first[t] # Nil) <=> (t \in TypesOf(reg.list))
    /\ \A i \in 1..Len(reg.list) :
         reg.list[i].ctor = reg.first[reg.list[i].Type]

\* The part of the claim about a lookup that holds of all four functions.
LookupOk(r) ==
    /\ (r.first = Nil) <=> (r.invoked = Nil)
    /\ (r.first = Nil) => (r.err = ErrDbUnknownType /\ r.h = Nil)
    /\ (r.first # Nil) =>
         /\ r.invoked = r.first
         /\ r.field = r.fn
         /\ r.err = r.ctorerr

\* C5 as stated: each registry holds at most one entry per type, a lookup
\* of a registered type invokes the constructor of the first driver
\* registered with it and returns its result and error verbatim, and a
\* lookup fails with ErrDbUnknownType, invoking nothing, exactly when the
\* type was never registered.
C5_Original ==
    /\ RegistryOk(drivers) /\ RegistryOk(sdrivers)
    /\ regres.fn # "none" =>
         /\ LookupOk(regres)
         /\ (regres.first # Nil) => regres.h = regres.ctorh

\* C5 amended: as stated, except that CreateStorage returns the
\* constructor's Storage only when the constructor's error is nil, and a
\* nil Storage with the constructor's error otherwise.
C5_RegistryFirstWins ==
    /\ RegistryOk(drivers) /\ RegistryOk(sdrivers)
    /\ regres.fn # "none" =>
         /\ LookupOk(regres)
         /\ (regres.first # Nil /\ regres.fn # "CreateStorage") =>
              regres.h = regres.ctorh
         /\ (regres.first # Nil /\ regres.fn = "CreateStorage") =>
              regres.h = IF regres.ctorerr = Nil THEN regres.ctorh ELSE Nil

\* C5 witness: a second driver of a registered type was passed to
\* RegisterDriver, and a lookup of the type went to the first one.
C5_Witness ==
    /\ sdrivers.list = <<[Type |-> "leveldb", ctor |-> "c1"],
                         [Type |-> "memdb", ctor |-> "c2"]>>
    /\ regres.fn = "CreateStorage" /\ regres.type = "leveldb"
    /\ regres.invoked = "c1"
    /\ regres.ctorerr = ErrCtor /\ regres.h = Nil

\* n < 2^16 as 4 little-endian bytes.
LE4(n) == <<n % 256, n \div 256, 0, 0>>

\* The stored row the claim prescribes for the blobs pub and priv.
RowLayout(pub, priv) ==
    <<0>> \o LE4(8 + Len(pub) + Len(priv))
          \o LE4(Len(pub)) \o pub \o LE4(Len(priv)) \o priv

TooLong(l, avail) ==
    l[3] # 0 \/ l[4] # 0 \/ l[1] + 256 * l[2] > avail

\* Whether a record of at least 5 bytes declares more raw data than it has.
RawDataOver(s) == TooLong(SubSeq(s, 2, 5), Len(s) - 5)

\* Whether the raw data of an HD account (8 bytes or more) declares a
\* public or a private blob longer than what it holds.
BlobOver(raw) ==
    \/ TooLong(SubSeq(raw, 1, 4), Len(raw) - 8)
    \/ LET n == raw[1] + 256 * raw[2]
       IN  TooLong(SubSeq(raw, 5 + n, 8 + n), Len(raw) - 8 - n)

Malformed == {ErrMalformedRow, ErrMalformedHD}

\* C7: for every record stored under an account key, fetchAccountInfo
\* returns a decoded account or an error, never a fault: a malformed-record
\* error when the row is shorter than 5 bytes or a length prefix declares
\* more bytes than the record holds, an unsupported-account-type error when
\* the tag is not 0.
C7_MalformedRowsAreErrors ==
    (res.fn = "fetchAccountInfo"
        /\ HasKey(bucket, uint32ToBytes(res.arg.account))) =>
      LET s == bucket.data[uint32ToBytes(res.arg.account)]
      IN  /\ res.outcome \in {"ok", "error"}
          /\ Len(s) < 5 => (res.outcome = "error" /\ res.err \in Malformed)
          /\ (Len(s) >= 5 /\ RawDataOver(s)) =>
                (res.outcome = "error" /\ res.err \in Malformed)
          /\ (Len(s) >= 5 /\ ~RawDataOver(s) /\ s[1] # 0) =>
                (res.outcome = "error" /\ res.err = ErrUnsupportedType)
          /\ (Len(s) >= 13 /\ ~RawDataOver(s) /\ s[1] = 0
                /\ BlobOver(SubSeq(s, 6, Len(s)))) =>
                (res.outcome = "error" /\ res.err \in Malformed)

\* C8: after initBranchChildNum, and whatever updateChildNum calls follow,
\* fetchChildNum returns for each selector the index of the most recent
\* update with that selector (0 if there was none since the
\* initialisation), so that an update with one selector does not change
\* the other counter, and getChildNum returns the same value as the
\* matching component of fetchChildNum.
C8_ChildNumLastWritten ==
    /\ (hist.init /\ res.fn = "fetchChildNum") =>
         /\ res.outcome = "ok"
         /\ res.val.internal = hist.in
         /\ res.val.external = hist.ex
    /\ (hist.init /\ res.fn = "getChildNum") =>
         /\ res.outcome = "ok"
         /\ res.val = IF res.arg.internal THEN hist.in ELSE hist.ex
         /\ res.val = IF res.arg.internal
                      THEN fetchChildNum(bucket).val.internal
                      ELSE fetchChildNum(bucket).val.external

\* C8 witness: initialised, internal updated to 5, external never updated,
\* and fetchChildNum returned (internal = 5, external = 0).
C8_Witness ==
    /\ hist.init
    /\ res.fn = "fetchChildNum" /\ res.outcome = "ok"
    /\ res.val = [internal |-> U32(0, 5), external |-> U32(0, 0)]

\* The 8-byte key the claim prescribes: 4-byte LE branch, 4-byte LE index.
LE32(n) == <<n.lo % 256, n.lo \div 256, n.hi % 256, n.hi \div 256>>
PubKeyKey(branch, index) == LE32(branch) \o LE32(index)

\* C9: after any sequence of putEncryptedPubKey calls into an empty bucket
\* the bucket holds, under the key 4-byte LE branch ++ 4-byte LE index of
\* each pair put, the blob of the most recent put of that pair, and nothing
\* else; fetchEncryptedPubKey returns exactly one entry per pair, holding
\* that pair and that blob, in ascending order of the keys.
C9_PubKeyRoundTrip ==
    /\ DOMAIN bucket.data = {PubKeyKey(q[1], q[2]) : q \in DOMAIN hist}
    /\ \A q \in DOMAIN hist : bucket.data[PubKeyKey(q[1], q[2])] = hist[q]
    /\ res.fn = "fetchEncryptedPubKey" =>
         /\ res.outcome = "ok"
         /\ Len(res.val) = Cardinality(DOMAIN hist)
         /\ \A q \in DOMAIN hist :
              \E i \in 1..Len(res.val) :
                  /\ res.val[i].branch = q[1]
                  /\ res.val[i].index = q[2]
                  /\ res.val[i].pubkeyEnc = hist[q]
         /\ \A i, j \in 1..Len(res.val) :
              i < j => BytesLess(PubKeyKey(res.val[i].branch, res.val[i].index),
                                 PubKeyKey(res.val[j].branch, res.val[j].index))

\* C9 witness: all four pairs were put and the fetch returned them with
\* (branch 256, index 2^16) first and (branch 1, index 3) last.
C9_Witness ==
    /\ res.fn = "fetchEncryptedPubKey" /\ res.outcome = "ok"
    /\ Len(res.val) = 4
    /\ res.val[1].branch = U32(0, 256) /\ res.val[1].index = U32(1, 0)
    /\ res.val[4].branch = U32(0, 1) /\ res.val[4].index = U32(0, 3)
    /\ res.val[4].pubkeyEnc = <<2, 255>>

\* A record is absent when the bucket has no value under its key.
NotStored(k) == ~HasKey(bucket, k)

\* The accessors of required records other than getChildNum: an absent
\* required record is an error.
RequiredFetchErrors ==
    /\ (res.fn = "fetchMasterKeyParams" /\ NotStored(masterPubKeyName))
          => res.outcome = "error"
    /\ (res.fn = "fetchCryptoKeys" /\ NotStored(cryptoPubKeyName))
          => res.outcome = "error"
    /\ (res.fn = "fetchAccountUsage" /\ NotStored(accountUsageName))
          => res.outcome = "error"
    /\ (res.fn = "fetchCoinType" /\ NotStored(coinTypeName))
          => res.outcome = "error"
    /\ (res.fn = "fetchBranchPubKeys"
          /\ (NotStored(externalBranchPubKeyName)
                \/ NotStored(internalBranchPubKeyName)))
          => res.outcome = "error"
    /\ (res.fn = "fetchChildNum"
          /\ (NotStored(externalChildNumName) \/ NotStored(internalChildNumName)))
          => res.outcome = "error"

\* The optional records: absent private params, private key or entropy key
\* come back nil with a nil error, next to the stored public value.
OptionalFetchNil ==
    /\ (res.fn = "fetchMasterKeyParams" /\ ~NotStored(masterPubKeyName)) =>
         /\ res.outcome = "ok"
         /\ res.val.pubParams = Slice(bucket.data[masterPubKeyName])
         /\ NotStored(masterPrivKeyName) => res.val.privParams = NilSlice
    /\ (res.fn = "fetchCryptoKeys" /\ ~NotStored(cryptoPubKeyName)) =>
         /\ res.outcome = "ok"
         /\ res.val.pubKey = Slice(bucket.data[cryptoPubKeyName])
         /\ NotStored(cryptoPrivKeyName) => res.val.privKey = NilSlice
         /\ NotStored(cryptoEntropyKeyName) => res.val.entropyKey = NilSlice

\* getChildNum of an absent counter is an error.
GetChildNumErrors ==
    (/\ res.fn = "getChildNum"
     /\ NotStored(IF res.arg.internal THEN internalChildNumName
               ELSE externalChildNumName))
       => res.outcome = "error"

\* What does hold of the code: every part of C10 but the one on getChildNum.
RequiredOptionalButGetChildNum == RequiredFetchErrors /\ OptionalFetchNil

\* C10: when its record is absent from the bucket, every accessor of a
\* required record (fetchMasterKeyParams, fetchCryptoKeys,
\* fetchAccountUsage, fetchCoinType, fetchBranchPubKeys, fetchChildNum and
\* getChildNum) returns a non-nil error, not a value and not a fault; an
\* absent master private params, crypto private key or crypto entropy key
\* is returned as nil with a nil error next to the present public value.
C10_RequiredOptional ==
    /\ RequiredFetchErrors
    /\ GetChildNumErrors
    /\ OptionalFetchNil

\* A check (create = false) that the file system answered without a fault.
Checked == verres.fn = "CheckVersion" /\ ~verres.create /\ verres.io = "ok"

\* The parts of C11 that do not depend on the type name: no stamp is the
\* does-not-exist condition, and a check leaves the stamp as it is.
NoStampAndFrame ==
    /\ (Checked /\ files[verres.storPath].kind = "none")
          => verres.err = ErrDbDoesNotExist
    /\ (verres.fn = "CheckVersion" /\ ~verres.create) => ~verres.changed

\* The check of a stamped root against the type t it was stamped with.
StampMatches(t) ==
    Checked /\ stamped[verres.storPath].set
      /\ stamped[verres.storPath].t = t
      => IF verres.dbtype = t THEN verres.err = Nil
         ELSE verres.err = ErrVersionCheckFailed

\* A type name that is well-formed UTF-8.
ValidUTF8(t) == JSONString(t, 1) = t

\* What does hold of the code: C11 for the roots stamped with a type name
\* that is well-formed UTF-8.
StampMatchesValidNames ==
    /\ NoStampAndFrame
    /\ \A t \in StampTypes : ValidUTF8(t) => StampMatches(t)

\* C11: on a storage root with no stamp CheckVersion(t, path, false) fails
\* with the does-not-exist condition; after CheckVersion(t, path, true)
\* succeeded, CheckVersion(t, path, false) succeeds for the same t and
\* CheckVersion(t2, path, false) fails with ErrVersionCheckFailed for every
\* t2 different from t; a check with create = false never changes the
\* stored stamp.
C11_VersionStamp ==
    /\ NoStampAndFrame
    /\ \A t \in StampTypes : StampMatches(t)

\* The keys a call reads with Bucket.Get, or writes with Bucket.Put.
KeysOf(fn, arg) ==
    CASE fn \in {"putMasterKeyParams", "fetchMasterKeyParams"} ->
            {masterPrivKeyName, masterPubKeyName}
      [] fn \in {"putCryptoKeys", "fetchCryptoKeys"} ->
            {cryptoPubKeyName, cryptoPrivKeyName, cryptoEntropyKeyName}
      [] fn \in {"putCoinType", "fetchCoinType"} -> {coinTypeName}
      [] fn \in {"putBranchPubKeys", "fetchBranchPubKeys"} ->
            {externalBranchPubKeyName, internalBranchPubKeyName}
      [] fn \in {"initBranchChildNum", "fetchChildNum"} ->
            {externalChildNumName, internalChildNumName}
      [] fn \in {"updateChildNum", "getChildNum"} ->
            {IF arg THEN internalChildNumName ELSE externalChildNumName}
      [] fn = "putAccountInfo" ->
            {accountUsageName, uint32ToBytes(OneAccount)}
      [] fn = "fetchAccountUsage" -> {accountUsageName}
      [] fn = "fetchAccountInfo" -> {uint32ToBytes(OneAccount)}
      [] OTHER -> {}

\* The last call met a failing Get or Put on a key it uses.
StorageFailed ==
    /\ res.fn # "none"
    /\ res.arg.failed \cap KeysOf(res.fn, res.arg.arg) # {}

\* What does hold of the code: every accessor but fetchCryptoKeys returns
\* an error when a Get or Put it makes fails; fetchCryptoKeys does when the
\* Get of the public key fails.
FailureSurfacesButCryptoKeys ==
    (/\ StorageFailed
     /\ (res.fn = "fetchCryptoKeys" => cryptoPubKeyName \in res.arg.failed))
       => res.outcome = "error"

\* C12: if Bucket.Get returns a non-nil error for a key a fetch* or get*
\* function reads, the function returns a non-nil error, not a success with
\* a nil or partial value; every put* returns a non-nil error whenever the
\* underlying Bucket.Put fails.
C12_FailuresNotSuppressed == StorageFailed => res.outcome = "error"

\* The largest of a non-empty set of account numbers.
MaxAccount(as) == CHOOSE a \in as : \A o \in as : U32Leq(o, a)

\* The account numbers that have a row in the bucket.
StoredAccounts == {a \in Accounts : HasKey(bucket, uint32ToBytes(a))}

\* What does hold of the code: the counter is the account number of the
\* most recent putAccountInfo.
UsageIsLastPut ==
    (hist.put # {} /\ res.fn = "fetchAccountUsage") =>
        /\ res.outcome = "ok"
        /\ res.val = hist.last
        /\ StoredAccounts = hist.put

\* C13: after any non-empty sequence of successful putAccountInfo(b, scope,
\* a_i, ...) calls on one bucket, fetchAccountUsage(b) returns the maximum
\* of the a_i, so every stored account row has an account number less than
\* or equal to the counter.
C13_UsageHighWaterMark ==
    (hist.put # {} /\ res.fn = "fetchAccountUsage") =>
        /\ res.outcome = "ok"
        /\ res.val = MaxAccount(hist.put)
        /\ \A a \in StoredAccounts : U32Leq(a, res.val)

\* The last call was a put of a multi-valued record.
MultiPut == res.fn \in {"putAccountInfo", "putEncryptedPubKey"}

\* What does hold of the code: a multi-valued put whose key is no fixed key
\* name leaves the fixed-key records as they were.
FrameWhenKeysDiffer ==
    (MultiPut /\ res.arg.key \notin FixedKeyNames)
       => Singletons(bucket) = res.arg.before

\* C14: for every account number a and every (branch, index) pair, the key
\* written by putAccountInfo (4-byte LE of a) and the key written by
\* putEncryptedPubKey (8-byte branch ++ index) differs from every fixed key
\* name of the codec, so these puts leave the version, master and crypto
\* key, entropy, coin type, remark, branch key and child-index records of
\* the bucket unchanged.
C14_MultiValuedKeysDisjoint ==
    MultiPut =>
        /\ res.arg.key \notin FixedKeyNames
        /\ Singletons(bucket) = res.arg.before

====
